---- MODULE Spec2Model ----
(***************************************************************************)
(* Model of main.py of dobre-zpravy: one batch run loads database.json,    *)
(* walks the RSS feed under two budgets, asks the Groq classifier about    *)
(* every entry that is neither known nor locally filtered, appends the     *)
(* parsed records, and in the finally block sorts, saves and renders.      *)
(*                                                                         *)
(* Strings are sequences of tokens (text, titles) or of digits             *)
(* (timestamps); diacritics of the Czech literals are dropped.             *)
(***************************************************************************)
EXTENDS Integers, Sequences, FiniteSets, TLC

VARIABLES
    dbExists,            \* os.path.exists(DB_FILE)
    store,               \* the records serialized in database.json
    db_articles,         \* the in-memory collection
    existing_links,      \* snapshot of the links known at startup
    feed,                \* feed.entries
    idx,                 \* position of the for-loop iterator (1-based)
    processed_count,
    new_articles_count,
    pc,                  \* control point of the script
    text,                \* analyze_article_with_groq: the stripped response
    result,              \* main loop: what analyze_article_with_groq returned
    exc,                 \* exception that left the try block
    rendered,            \* the articles written into index.html
    phases,              \* history: steps of the finally block run so far
    loaded,              \* history: what load_database returned
    accepted,            \* history: records appended by this run, in order
    presort,             \* history: db_articles right before the sort
    error,               \* analyze_article_with_groq: str(e) of the caught error
    called               \* history: links of the classifier calls of this run

vars == <<dbExists, store, db_articles, existing_links, feed, idx,
          processed_count, new_articles_count, pc, text, result, exc,
          rendered, phases, loaded, accepted, presort, error, called>>

----------------------------------------------------------------------------
(* Bounds of the model *)

MaxFeed == 2          \* longest feed of the mixed family
MaxStore == 1         \* a further run starts only from a store this small
LongFeedLen == 61     \* length of the feeds that exhaust the budgets
MaxLiveFeed == 1      \* longest short feed of the liveness specification
MaxReloadStore == 2   \* SpecReload: a further run starts from a store this small

(* Program constants *)

MaxNewArticles == 10
MaxProcessed == 60

None == "None"                  \* None where a name is expected
NoText == <<"<None>">>          \* None where a text is expected
NoRecord == [none |-> TRUE]     \* None where a record is expected

Links == {"L1", "L2"}

\* ISO strings as digit sequences: "10" and "2" order differently as
\* strings and as numbers.
Timestamps == {<<1, 0>>, <<2>>}

TitleOk == <<"Firma", "otevrela", "tovarnu">>
TitleStop == <<"SOUD", "rozhodl">>
Titles == {TitleOk, TitleStop}

\* feed entries; timestamp is what parse_rss_date makes of the entry
Entries == {[link |-> "L1", title |-> TitleOk, timestamp |-> <<1, 0>>],
            [link |-> "L1", title |-> TitleOk, timestamp |-> <<2>>],
            [link |-> "L2", title |-> TitleOk, timestamp |-> <<2>>],
            [link |-> "L2", title |-> TitleStop, timestamp |-> <<2>>]}

Range(s) == {s[i] : i \in 1..Len(s)}

SeqsUpTo(S, n) == UNION {[1..k -> S] : k \in 0..n}

----------------------------------------------------------------------------
(* Strings *)

\* Python's str < str: lexicographic, a proper prefix is smaller.
RECURSIVE StrLess(_, _)
StrLess(s, t) ==
    IF t = <<>> THEN FALSE
    ELSE IF s = <<>> THEN TRUE
    ELSE IF Head(s) # Head(t) THEN Head(s) < Head(t)
    ELSE StrLess(Tail(s), Tail(t))

\* "needle in haystack" on token sequences
Contains(haystack, needle) == \E i \in 1..Len(haystack) : haystack[i] = needle

\* str.split(sep): the pieces between the occurrences of sep
RECURSIVE SplitFrom(_, _, _)
SplitFrom(s, sep, piece) ==
    IF s = <<>> THEN <<piece>>
    ELSE IF Head(s) = sep THEN <<piece>> \o SplitFrom(Tail(s), sep, <<>>)
    ELSE SplitFrom(Tail(s), sep, Append(piece, Head(s)))

Split(s, sep) == SplitFrom(s, sep, <<>>)

\* str.lower() on the tokens the titles are made of
LowerToken(w) ==
    CASE w = "SOUD" -> "soud"
      [] w = "Soud" -> "soud"
      [] w = "Firma" -> "firma"
      [] w = "Vrazda" -> "vrazda"
      [] w = "Praze" -> "praze"
      [] w = "Vedci" -> "vedci"
      [] OTHER -> w

Lower(s) == [i \in 1..Len(s) |-> LowerToken(s[i])]

----------------------------------------------------------------------------
(* load_database / get_existing_links *)

\* variant: the persisted is_new is kept
ResetIsNewSkipped(data) == data

ResetIsNew(data) == [i \in 1..Len(data) |-> [data[i] EXCEPT !.is_new = FALSE]]

\* variant: no link of the loaded records is remembered
get_existing_links_none(data) == {}

get_existing_links(data) == {data[i].link : i \in 1..Len(data)}

----------------------------------------------------------------------------
(* is_worth_checking *)

stop_words == {"vrazda", "zabil", "zemrel", "umrti", "nehoda", "tragedie",
               "pozar", "soud", "vezeni", "policie", "krimi", "zlodej",
               "podvod", "babis", "fiala", "okamura", "pavel", "snemovna",
               "vlada", "volby", "valka", "rusko", "ukrajina", "izrael",
               "gaza", "utok", "zbrane", "recenze", "komentar", "glosa",
               "sport", "hokej", "fotbal", "liga"}

\* variant: the stop words are looked for in the title as written
is_worth_checking_as_written(title) ==
    ~ \E word \in stop_words : Contains(title, word)

is_worth_checking(title) ==
    LET title_lower == Lower(title)
    IN ~ \E word \in stop_words : Contains(title_lower, word)

----------------------------------------------------------------------------
(* format_date_display / parse_ai_result *)

format_date_display(iso_date) ==
    IF iso_date # <<>>
    THEN [formatted |-> TRUE, of |-> iso_date]
    ELSE [formatted |-> FALSE, of |-> iso_date]

valid_cats == {<<"Veda">>, <<"Technologie">>, <<"Medicina">>, <<"Byznys">>,
               <<"Spolecnost">>}

StripQuotes(s) == SelectSeq(s, LAMBDA w : w \notin {"\"", "'"})

\* variant: a field whose marker is missing is left empty
parse_ai_result_lenient(t, original_link, timestamp) ==
    LET after(m) == IF Len(Split(t, m)) < 2 THEN <<>> ELSE Split(t, m)[2]
        category == Split(after("KATEGORIE:"), "TITULEK:")[1]
        title == Split(after("TITULEK:"), "SHRNUTI:")[1]
        summary == after("SHRNUTI:")
    IN [category |-> IF category \notin valid_cats
                     THEN <<"Spolecnost">> ELSE category,
        title |-> StripQuotes(title),
        summary |-> summary,
        link |-> original_link,
        timestamp |-> timestamp,
        timestamp_display |-> format_date_display(timestamp),
        is_new |-> TRUE]

\* variant: the category is kept as the classifier wrote it
parse_ai_result_any_category(t, original_link, timestamp) ==
    IF \/ Len(Split(t, "KATEGORIE:")) < 2
       \/ Len(Split(t, "TITULEK:")) < 2
       \/ Len(Split(t, "SHRNUTI:")) < 2
    THEN NoRecord
    ELSE LET category == Split(Split(t, "KATEGORIE:")[2], "TITULEK:")[1]
             title == Split(Split(t, "TITULEK:")[2], "SHRNUTI:")[1]
             summary == Split(t, "SHRNUTI:")[2]
         IN [category |-> category,
             title |-> StripQuotes(title),
             summary |-> summary,
             link |-> original_link,
             timestamp |-> timestamp,
             timestamp_display |-> format_date_display(timestamp),
             is_new |-> TRUE]

\* None when one of the three splits has no second piece (IndexError)
parse_ai_result(t, original_link, timestamp) ==
    IF \/ Len(Split(t, "KATEGORIE:")) < 2
       \/ Len(Split(t, "TITULEK:")) < 2
       \/ Len(Split(t, "SHRNUTI:")) < 2
    THEN NoRecord
    ELSE LET category == Split(Split(t, "KATEGORIE:")[2], "TITULEK:")[1]
             title == Split(Split(t, "TITULEK:")[2], "SHRNUTI:")[1]
             summary == Split(t, "SHRNUTI:")[2]
         IN [category |-> IF category \notin valid_cats
                          THEN <<"Spolecnost">> ELSE category,
             title |-> StripQuotes(title),
             summary |-> summary,
             link |-> original_link,
             timestamp |-> timestamp,
             timestamp_display |-> format_date_display(timestamp),
             is_new |-> TRUE]

----------------------------------------------------------------------------
(* The classifier's answers and failures *)

RespOk == <<"KATEGORIE:", "Spolecnost", "TITULEK:", "'", "Tovarna", "'",
            "SHRNUTI:", "Shrnuti">>
RespBadCat == <<"KATEGORIE:", "Sport", "TITULEK:", "Tovarna",
                "SHRNUTI:", "Shrnuti">>
RespSkip == <<"SKIP">>
RespSkipFields == <<"KATEGORIE:", "Spolecnost", "TITULEK:", "Tovarna",
                    "SHRNUTI:", "Shrnuti", "SKIP">>
RespNoSummary == <<"KATEGORIE:", "Spolecnost", "TITULEK:", "Tovarna">>
RespNoTitle == <<"KATEGORIE:", "Spolecnost", "SHRNUTI:", "Shrnuti">>
RespNoCategory == <<"TITULEK:", "Tovarna", "SHRNUTI:", "Shrnuti">>
RespEmpty == <<>>

Responses == {RespOk, RespBadCat, RespSkip, RespSkipFields, RespNoSummary,
              RespNoTitle, RespNoCategory, RespEmpty}

Failures == {<<"Connection", "error">>, <<"Error", "code:", "429">>}

----------------------------------------------------------------------------
(* The finalize sort *)

\* variant: the key is the timestamp alone
KeyLessByTimestamp(a, b) == StrLess(a.timestamp, b.timestamp)

\* key=lambda x: (x.get('is_new', False), x.get('timestamp', ''))
KeyLess(a, b) ==
    \/ ~a.is_new /\ b.is_new
    \/ a.is_new = b.is_new /\ StrLess(a.timestamp, b.timestamp)

SameSortKey(a, b) == ~KeyLess(a, b) /\ ~KeyLess(b, a)

\* variant: among equal keys the later element comes first (an ascending
\* sort that is then reversed)
RankUnstable(s, i) ==
    1 + Cardinality({j \in 1..Len(s) :
                        \/ KeyLess(s[i], s[j])
                        \/ j > i /\ SameSortKey(s[i], s[j])})

\* Where list.sort(key=..., reverse=True) puts the element at index i: behind
\* the elements with a greater key and, the sort being stable also when
\* reversed, behind the earlier elements with an equal key.
Rank(s, i) ==
    1 + Cardinality({j \in 1..Len(s) :
                        \/ KeyLess(s[i], s[j])
                        \/ j < i /\ SameSortKey(s[i], s[j])})

\* db_articles.sort(key=..., reverse=True)
SortArticles(s) ==
    [p \in 1..Len(s) |-> s[CHOOSE i \in 1..Len(s) : Rank(s, i) = p]]

----------------------------------------------------------------------------
(* Inputs *)

MakeRecord(l, ts, new) ==
    [category |-> <<"Spolecnost">>, title |-> <<"Tovarna">>,
     summary |-> <<"Shrnuti">>, link |-> l, timestamp |-> ts,
     timestamp_display |-> format_date_display(ts), is_new |-> new]

\* database.json as an earlier run can have left it
InitStores == {<<>>} \cup {<<MakeRecord(l, ts, new)>> :
                             l \in Links, ts \in Timestamps, new \in BOOLEAN}

Feeds == SeqsUpTo(Entries, MaxFeed)

LongTimestamp == <<2>>

LongFeed(n, a, b) ==
    [i \in 1..n |->
        CASE i % 3 = 1 -> [link |-> a, title |-> TitleOk, timestamp |-> LongTimestamp]
          [] i % 3 = 2 -> [link |-> b, title |-> TitleStop, timestamp |-> LongTimestamp]
          [] OTHER -> [link |-> a, title |-> TitleStop, timestamp |-> LongTimestamp]]

LongFeeds == {LongFeed(LongFeedLen, "L1", "L2")}

----------------------------------------------------------------------------
(* State *)

RunStart ==
    /\ db_articles = <<>>
    /\ existing_links = {}
    /\ feed = <<>>
    /\ idx = 1
    /\ processed_count = 0
    /\ new_articles_count = 0
    /\ pc = "load"
    /\ text = NoText
    /\ result = NoText
    /\ exc = None
    /\ phases = <<>>
    /\ loaded = <<>>
    /\ accepted = <<>>
    /\ presort = <<>>
    /\ error = NoText
    /\ called = <<>>

Init ==
    /\ dbExists \in BOOLEAN
    /\ store \in IF dbExists THEN InitStores ELSE {<<>>}
    /\ rendered = <<>>
    /\ RunStart

----------------------------------------------------------------------------
(* Startup: lines 173-185 *)

\* load_database when DB_FILE does not exist, then get_existing_links
LoadMissing ==
    /\ pc = "load"
    /\ ~dbExists
    /\ db_articles' = <<>>
    /\ existing_links' = get_existing_links(db_articles')
    /\ loaded' = db_articles'
    /\ pc' = "fetch"
    /\ UNCHANGED <<dbExists, store, feed, idx, processed_count,
                   new_articles_count, text, result, exc, rendered, phases,
                   accepted, presort, error, called>>

\* load_database reads the file and resets is_new, then get_existing_links
LoadDatabase ==
    /\ pc = "load"
    /\ dbExists
    /\ db_articles' = ResetIsNew(store)
    /\ existing_links' = get_existing_links(db_articles')
    /\ loaded' = db_articles'
    /\ pc' = "fetch"
    /\ UNCHANGED <<dbExists, store, feed, idx, processed_count,
                   new_articles_count, text, result, exc, rendered, phases,
                   accepted, presort, error, called>>

\* variant: the error of the read leaves load_database and ends the script
LoadDatabaseRaises ==
    /\ pc = "load"
    /\ dbExists
    /\ db_articles' = <<>>
    /\ existing_links' = {}
    /\ loaded' = <<>>
    /\ exc' = "Exception"
    /\ pc' = "crashed"
    /\ UNCHANGED <<dbExists, store, feed, idx, processed_count,
                   new_articles_count, text, result, rendered, phases,
                   accepted, presort, error, called>>

\* load_database: open, json.load or the reset loop raises; the except
\* branch returns [] and leaves the file as it is
LoadDatabaseFails ==
    /\ pc = "load"
    /\ dbExists
    /\ db_articles' = <<>>
    /\ existing_links' = get_existing_links(db_articles')
    /\ loaded' = db_articles'
    /\ pc' = "fetch"
    /\ UNCHANGED <<dbExists, store, feed, idx, processed_count,
                   new_articles_count, text, result, exc, rendered, phases,
                   accepted, presort, error, called>>

\* feedparser.parse, and the two counters set to 0
FetchFeed(F) ==
    /\ pc = "fetch"
    /\ feed' \in F
    /\ idx' = 1
    /\ processed_count' = 0
    /\ new_articles_count' = 0
    /\ pc' = "loop"
    /\ UNCHANGED <<dbExists, store, db_articles, existing_links, text, result,
                   exc, rendered, phases, loaded, accepted, presort,
                   error, called>>

----------------------------------------------------------------------------
(* The per-entry loop: lines 187-231 *)

entry == feed[idx]

LoopPcs == {"loop", "delay", "call", "waiting", "received", "failed",
            "cooldown", "parse", "count"}

\* the iterator has no further entry
FeedExhausted ==
    /\ pc = "loop"
    /\ idx > Len(feed)
    /\ pc' = "finalize"
    /\ UNCHANGED <<dbExists, store, db_articles, existing_links, feed, idx,
                   processed_count, new_articles_count, text, result, exc,
                   rendered, phases, loaded, accepted, presort, error, called>>

\* if new_articles_count >= 10: break
EnoughNew ==
    /\ pc = "loop"
    /\ idx <= Len(feed)
    /\ new_articles_count >= MaxNewArticles
    /\ pc' = "finalize"
    /\ UNCHANGED <<dbExists, store, db_articles, existing_links, feed, idx,
                   processed_count, new_articles_count, text, result, exc,
                   rendered, phases, loaded, accepted, presort, error, called>>

\* if processed_count >= 60: break
EnoughProcessed ==
    /\ pc = "loop"
    /\ idx <= Len(feed)
    /\ new_articles_count < MaxNewArticles
    /\ processed_count >= MaxProcessed
    /\ pc' = "finalize"
    /\ UNCHANGED <<dbExists, store, db_articles, existing_links, feed, idx,
                   processed_count, new_articles_count, text, result, exc,
                   rendered, phases, loaded, accepted, presort, error, called>>

\* variant: the accepted budget is not tested
InBodyNoNewCap ==
    /\ pc = "loop"
    /\ idx <= Len(feed)
    /\ processed_count < MaxProcessed

\* variant: the processed budget is not tested
InBodyNoProcessedCap ==
    /\ pc = "loop"
    /\ idx <= Len(feed)
    /\ new_articles_count < MaxNewArticles

\* the guards of the loop body
InBody ==
    /\ pc = "loop"
    /\ idx <= Len(feed)
    /\ new_articles_count < MaxNewArticles
    /\ processed_count < MaxProcessed

\* if link in existing_links: processed_count += 1; continue
Duplicate ==
    /\ InBody
    /\ entry.link \in existing_links
    /\ processed_count' = processed_count + 1
    /\ idx' = idx + 1
    /\ UNCHANGED <<dbExists, store, db_articles, existing_links, feed,
                   new_articles_count, pc, text, result, exc, rendered,
                   phases, loaded, accepted, presort, error, called>>

\* if not is_worth_checking(original_title): processed_count += 1; continue
LocalReject ==
    /\ InBody
    /\ entry.link \notin existing_links
    /\ ~is_worth_checking(entry.title)
    /\ processed_count' = processed_count + 1
    /\ idx' = idx + 1
    /\ UNCHANGED <<dbExists, store, db_articles, existing_links, feed,
                   new_articles_count, pc, text, result, exc, rendered,
                   phases, loaded, accepted, presort, error, called>>

\* processed_count += 1; if processed_count > 1: the delay comes first
Candidate ==
    /\ InBody
    /\ entry.link \notin existing_links
    /\ is_worth_checking(entry.title)
    /\ processed_count' = processed_count + 1
    /\ pc' = IF processed_count' > 1 THEN "delay" ELSE "call"
    /\ UNCHANGED <<dbExists, store, db_articles, existing_links, feed, idx,
                   new_articles_count, text, result, exc, rendered, phases,
                   loaded, accepted, presort, error, called>>

\* time.sleep(DELAY_SECONDS)
Delay ==
    /\ pc = "delay"
    /\ pc' = "call"
    /\ UNCHANGED <<dbExists, store, db_articles, existing_links, feed, idx,
                   processed_count, new_articles_count, text, result, exc,
                   rendered, phases, loaded, accepted, presort, error, called>>

\* analyze_article_with_groq: client.chat.completions.create is issued
CallClassifier ==
    /\ pc = "call"
    /\ pc' = "waiting"
    /\ called' = Append(called, entry.link)
    /\ UNCHANGED <<dbExists, store, db_articles, existing_links, feed, idx,
                   processed_count, new_articles_count, text, result, exc,
                   rendered, phases, loaded, accepted, presort, error>>

\* the service answers with one of R: text = ...message.content.strip()
ClassifierAnswersFrom(R) ==
    /\ pc = "waiting"
    /\ text' \in R
    /\ pc' = "received"
    /\ UNCHANGED <<dbExists, store, db_articles, existing_links, feed, idx,
                   processed_count, new_articles_count, result, exc, rendered,
                   phases, loaded, accepted, presort, error, called>>

ClassifierAnswers == ClassifierAnswersFrom(Responses)

\* variant: only the bare answer SKIP is a reject
AnalyzeResultExact(t) == IF t = <<"SKIP">> THEN NoText ELSE t

\* what analyze_article_with_groq returns for a response text
AnalyzeResult(t) == IF Contains(t, "SKIP") THEN NoText ELSE t

\* Python truth value of the returned text
Truthy(r) == r # NoText /\ r # <<>>

\* if "SKIP" in text: return None, else return text; then "if result:"
ClassifierReturns ==
    /\ pc = "received"
    /\ LET r == AnalyzeResult(text)
       IN IF Truthy(r)
          THEN /\ result' = r
               /\ pc' = "parse"
               /\ idx' = idx
          ELSE /\ result' = NoText
               /\ pc' = "loop"
               /\ idx' = idx + 1
    /\ text' = NoText
    /\ UNCHANGED <<dbExists, store, db_articles, existing_links, feed,
                   processed_count, new_articles_count, exc, rendered, phases,
                   loaded, accepted, presort, error, called>>

\* the call raises and "except Exception as e" catches it
ClassifierFails ==
    /\ pc = "waiting"
    /\ error' \in Failures
    /\ pc' = "failed"
    /\ UNCHANGED <<dbExists, store, db_articles, existing_links, feed, idx,
                   processed_count, new_articles_count, text, result, exc,
                   rendered, phases, loaded, accepted, presort, called>>

\* variant: the error of the call is not caught and leaves the loop
FailureRaises ==
    /\ pc = "failed"
    /\ error' = NoText
    /\ exc' = "Exception"
    /\ pc' = "finalize"
    /\ idx' = idx
    /\ UNCHANGED <<dbExists, store, db_articles, existing_links, feed,
                   processed_count, new_articles_count, text, result,
                   rendered, phases, loaded, accepted, presort, called>>

\* the except block: return None, after the cool-down if "429" in str(e)
FailureReturns ==
    /\ pc = "failed"
    /\ IF Contains(error, "429")
       THEN pc' = "cooldown" /\ idx' = idx /\ error' = error
       ELSE pc' = "loop" /\ idx' = idx + 1 /\ error' = NoText
    /\ UNCHANGED <<dbExists, store, db_articles, existing_links, feed,
                   processed_count, new_articles_count, text, result, exc,
                   rendered, phases, loaded, accepted, presort, called>>

\* time.sleep(30); return None
CoolDown ==
    /\ pc = "cooldown"
    /\ pc' = "loop"
    /\ idx' = idx + 1
    /\ error' = NoText
    /\ UNCHANGED <<dbExists, store, db_articles, existing_links, feed,
                   processed_count, new_articles_count, text, result, exc,
                   rendered, phases, loaded, accepted, presort, called>>

\* variant: the link of an appended record joins the known links
ParseResultLearnsLink ==
    /\ pc = "parse"
    /\ LET parsed == parse_ai_result(result, entry.link, entry.timestamp)
       IN IF parsed # NoRecord
          THEN /\ db_articles' = Append(db_articles, parsed)
               /\ accepted' = Append(accepted, parsed)
               /\ existing_links' = existing_links \cup {entry.link}
               /\ pc' = "count"
               /\ idx' = idx
          ELSE /\ UNCHANGED <<db_articles, accepted, existing_links>>
               /\ pc' = "loop"
               /\ idx' = idx + 1
    /\ result' = NoText
    /\ UNCHANGED <<dbExists, store, feed, processed_count,
                   new_articles_count, text, exc, rendered, phases, loaded,
                   presort, error, called>>

\* parsed = parse_ai_result(...); if parsed: db_articles.append(parsed)
ParseResult ==
    /\ pc = "parse"
    /\ LET parsed == parse_ai_result(result, entry.link, entry.timestamp)
       IN IF parsed # NoRecord
          THEN /\ db_articles' = Append(db_articles, parsed)
               /\ accepted' = Append(accepted, parsed)
               /\ pc' = "count"
               /\ idx' = idx
          ELSE /\ UNCHANGED <<db_articles, accepted>>
               /\ pc' = "loop"
               /\ idx' = idx + 1
    /\ result' = NoText
    /\ UNCHANGED <<dbExists, store, existing_links, feed, processed_count,
                   new_articles_count, text, exc, rendered, phases, loaded,
                   presort, error, called>>

\* variant: the appended record is not counted
CountNewSkipped ==
    /\ pc = "count"
    /\ new_articles_count' = new_articles_count
    /\ pc' = "loop"
    /\ idx' = idx + 1
    /\ UNCHANGED <<dbExists, store, db_articles, existing_links, feed,
                   processed_count, text, result, exc, rendered, phases,
                   loaded, accepted, presort, error, called>>

\* new_articles_count += 1
CountNew ==
    /\ pc = "count"
    /\ new_articles_count' = new_articles_count + 1
    /\ pc' = "loop"
    /\ idx' = idx + 1
    /\ UNCHANGED <<dbExists, store, db_articles, existing_links, feed,
                   processed_count, text, result, exc, rendered, phases,
                   loaded, accepted, presort, error, called>>

\* variant: the interrupt ends the script, no finally block
InterruptAborts ==
    /\ pc \in LoopPcs
    /\ exc' = "KeyboardInterrupt"
    /\ pc' = "done"
    /\ text' = NoText
    /\ result' = NoText
    /\ error' = NoText
    /\ UNCHANGED <<dbExists, store, db_articles, existing_links, feed, idx,
                   processed_count, new_articles_count, rendered, phases,
                   loaded, accepted, presort, called>>

\* Ctrl-C anywhere inside the try block: except KeyboardInterrupt
Interrupt ==
    /\ pc \in LoopPcs
    /\ exc' = "KeyboardInterrupt"
    /\ pc' = "finalize"
    /\ text' = NoText
    /\ result' = NoText
    /\ error' = NoText
    /\ UNCHANGED <<dbExists, store, db_articles, existing_links, feed, idx,
                   processed_count, new_articles_count, rendered, phases,
                   loaded, accepted, presort, called>>

\* variant: the error leaves the script, no finally block
EntryRaisesNoFinally ==
    /\ pc = "loop"
    /\ idx <= Len(feed)
    /\ new_articles_count < MaxNewArticles
    /\ processed_count < MaxProcessed
    /\ exc' = "Exception"
    /\ pc' = "crashed"
    /\ UNCHANGED <<dbExists, store, db_articles, existing_links, feed, idx,
                   processed_count, new_articles_count, text, result,
                   rendered, phases, loaded, accepted, presort, error, called>>

\* reading the entry raises (entry.link, entry.title, parse_rss_date):
\* no except clause matches, the finally block runs with the error pending
EntryRaises ==
    /\ InBody
    /\ exc' = "Exception"
    /\ pc' = "finalize"
    /\ UNCHANGED <<dbExists, store, db_articles, existing_links, feed, idx,
                   processed_count, new_articles_count, text, result,
                   rendered, phases, loaded, accepted, presort, error, called>>

----------------------------------------------------------------------------
(* The finally block: lines 236-249 *)

\* db_articles.sort(key=..., reverse=True)
SortStep ==
    /\ pc = "finalize"
    /\ presort' = db_articles
    /\ db_articles' = SortArticles(db_articles)
    /\ phases' = Append(phases, "sort")
    /\ pc' = "save"
    /\ UNCHANGED <<dbExists, store, existing_links, feed, idx,
                   processed_count, new_articles_count, text, result, exc,
                   rendered, loaded, accepted, error, called>>

\* variant: only the records of this run are written
SaveStepNewOnly ==
    /\ pc = "save"
    /\ store' = SelectSeq(db_articles, LAMBDA r : r.is_new)
    /\ dbExists' = TRUE
    /\ phases' = Append(phases, "save")
    /\ pc' = "render"
    /\ UNCHANGED <<db_articles, existing_links, feed, idx, processed_count,
                   new_articles_count, text, result, exc, rendered, loaded,
                   accepted, presort, error, called>>

\* save_database(db_articles): the file is overwritten in full
SaveStep ==
    /\ pc = "save"
    /\ store' = db_articles
    /\ dbExists' = TRUE
    /\ phases' = Append(phases, "save")
    /\ pc' = "render"
    /\ UNCHANGED <<db_articles, existing_links, feed, idx, processed_count,
                   new_articles_count, text, result, exc, rendered, loaded,
                   accepted, presort, error, called>>

\* generate_html_from_template(db_articles); a pending error then leaves
\* the script
RenderStep ==
    /\ pc = "render"
    /\ rendered' = db_articles
    /\ phases' = Append(phases, "render")
    /\ pc' = IF exc = "Exception" THEN "crashed" ELSE "done"
    /\ UNCHANGED <<dbExists, store, db_articles, existing_links, feed, idx,
                   processed_count, new_articles_count, text, result, exc,
                   loaded, accepted, presort, error, called>>

\* the script is started again on the store the last run left, when that
\* store has at most n records
NewRunFrom(n) ==
    /\ pc \in {"done", "crashed"}
    /\ Len(store) <= n
    /\ db_articles' = <<>>
    /\ existing_links' = {}
    /\ feed' = <<>>
    /\ idx' = 1
    /\ processed_count' = 0
    /\ new_articles_count' = 0
    /\ pc' = "load"
    /\ text' = NoText
    /\ result' = NoText
    /\ exc' = None
    /\ phases' = <<>>
    /\ loaded' = <<>>
    /\ accepted' = <<>>
    /\ presort' = <<>>
    /\ error' = NoText
    /\ called' = <<>>
    /\ UNCHANGED <<dbExists, store, rendered>>

NewRun == NewRunFrom(MaxStore)

----------------------------------------------------------------------------
(* Specifications *)

\* the steps the script takes by itself once started
ProgramStep(F) ==
    \/ LoadMissing \/ LoadDatabase \/ LoadDatabaseFails \/ FetchFeed(F)
    \/ FeedExhausted \/ EnoughNew \/ EnoughProcessed
    \/ Duplicate \/ LocalReject \/ Candidate \/ Delay \/ CallClassifier
    \/ ClassifierAnswers \/ ClassifierReturns \/ ClassifierFails \/ FailureReturns
    \/ CoolDown
    \/ ParseResult \/ CountNew \/ EntryRaises
    \/ SortStep \/ SaveStep \/ RenderStep

Next == ProgramStep(Feeds \cup LongFeeds) \/ Interrupt \/ NewRun

Spec == Init /\ [][Next]_vars

\* One run with the script always taking its next step, from no store or a
\* one-record store, over the feeds of at most MaxLiveFeed entries and the
\* long feed.
InitLive ==
    /\ dbExists \in BOOLEAN
    /\ store \in IF dbExists THEN {<<MakeRecord("L2", <<2>>, TRUE)>>} ELSE {<<>>}
    /\ rendered = <<>>
    /\ RunStart

LiveFeeds == SeqsUpTo(Entries, MaxLiveFeed) \cup LongFeeds

NextRun == ProgramStep(LiveFeeds) \/ Interrupt

LiveSpec == InitLive /\ [][NextRun]_vars /\ WF_vars(ProgramStep(LiveFeeds))

\* The end-to-end scenario: the store holds one record of link L1, the feed
\* yields L1, L2 under a stop-word title, L3 and L4, and the classifier
\* answers SKIP for L3 and a text with the three fields for L4.  The file is
\* read, no call fails, no entry raises and nobody interrupts.
TitleMurder == <<"Vrazda", "v", "Praze">>
TitleScience == <<"Vedci", "objevili", "novy", "lek">>

ScenarioFeeds ==
    {<<[link |-> "L1", title |-> t1, timestamp |-> a],
       [link |-> "L2", title |-> TitleMurder, timestamp |-> b],
       [link |-> "L3", title |-> TitleScience, timestamp |-> c],
       [link |-> "L4", title |-> TitleOk, timestamp |-> d]>> :
         t1 \in Titles, a \in Timestamps, b \in Timestamps,
         c \in Timestamps, d \in Timestamps}

ScenarioAnswers(link) ==
    IF link = "L3" THEN {RespSkip} ELSE {RespOk, RespBadCat}

InitScenario ==
    /\ dbExists = TRUE
    /\ store \in {<<MakeRecord("L1", ts, new)>> :
                     ts \in Timestamps, new \in BOOLEAN}
    /\ rendered = <<>>
    /\ RunStart

NextScenario ==
    \/ LoadDatabase \/ FetchFeed(ScenarioFeeds) \/ FeedExhausted
    \/ Duplicate \/ LocalReject \/ Candidate \/ Delay \/ CallClassifier
    \/ ClassifierAnswersFrom(ScenarioAnswers(entry.link))
    \/ ClassifierReturns \/ ParseResult \/ CountNew
    \/ SortStep \/ SaveStep \/ RenderStep

SpecScenario == InitScenario /\ [][NextScenario]_vars

\* Runs of the script one after another over the short feeds, each on the
\* store the run before left, up to stores of MaxReloadStore records.
NextReload ==
    \/ LoadMissing \/ LoadDatabase \/ LoadDatabaseFails \/ FetchFeed(Feeds)
    \/ FeedExhausted
    \/ Duplicate \/ LocalReject \/ Candidate \/ Delay \/ CallClassifier
    \/ ClassifierAnswers \/ ClassifierReturns \/ ClassifierFails
    \/ FailureReturns \/ CoolDown
    \/ ParseResult \/ CountNew \/ EntryRaises \/ Interrupt
    \/ SortStep \/ SaveStep \/ RenderStep
    \/ NewRunFrom(MaxReloadStore)

SpecReload == Init /\ [][NextReload]_vars

----------------------------------------------------------------------------
(* Properties *)

Count(s, x) == Cardinality({i \in 1..Len(s) : s[i] = x})

SameBag(s, t) ==
    /\ Len(s) = Len(t)
    /\ \A x \in Range(s) \cup Range(t) : Count(s, x) = Count(t, x)

LinksDistinct(s) ==
    \A i, j \in 1..Len(s) : i # j => s[i].link # s[j].link

FinalizePhases == <<"sort", "save", "render">>

Finished == pc \in {"done", "crashed"}

Saved == pc \in {"render", "done", "crashed"}

\* C1: the records of the persisted store have pairwise distinct links
\* (every store of Init has), whatever the feed and the classifier do.
C1_PersistedLinksDistinct == LinksDistinct(store)

\* C2: once the loop has been entered, the run comes to its end with the
\* finally block executed exactly once, as sort, save, render in this order,
\* and nothing of it runs again; whichever way the loop was left.
C2_FinalizeRunsOnce ==
    (pc \in LoopPcs) ~> [](Finished /\ phases = FinalizePhases)

C2_Witness ==
    /\ pc = "crashed"
    /\ exc = "Exception"
    /\ phases = FinalizePhases
    /\ accepted # <<>>

C4_StoreAppendOnly ==
    [][/\ Len(store') >= Len(store)
       /\ \A i \in 1..Len(store) :
             \E j \in 1..Len(store') : store'[j].link = store[i].link]_vars

\* C5: the accepted counter and the number of records accepted in the run
\* never exceed 10, and when the counter is 10 the script is at the loop head
\* or past the loop: no delay, classifier call or parse is under way.
C5_AcceptedBudget ==
    /\ new_articles_count <= MaxNewArticles
    /\ Len(accepted) <= MaxNewArticles
    /\ new_articles_count = MaxNewArticles => pc \notin LoopPcs \ {"loop"}

C5_Witness ==
    /\ new_articles_count = MaxNewArticles
    /\ pc = "finalize"
    /\ exc = None
    /\ idx <= Len(feed)

\* C6: the processed counter never exceeds 60 and counts every evaluated
\* entry exactly once: at the loop head it is the number of entries the
\* iterator has passed, inside the body it includes the current entry.
C6_ProcessedBudget ==
    /\ processed_count <= MaxProcessed
    /\ pc = "loop" => processed_count = idx - 1
    /\ pc \in LoopPcs \ {"loop"} => processed_count = idx
    /\ pc \notin LoopPcs \cup {"load", "fetch"} => processed_count \in {idx - 1, idx}

C6_Witness ==
    /\ processed_count = MaxProcessed
    /\ new_articles_count < MaxNewArticles
    /\ new_articles_count > 0
    /\ pc = "finalize"
    /\ exc = None
    /\ idx <= Len(feed)
    /\ \E i \in 1..Len(feed) : feed[i].link \in existing_links

Ordered(s) ==
    \A i, j \in 1..Len(s) :
        i < j => /\ s[j].is_new => s[i].is_new
                 /\ s[i].is_new = s[j].is_new
                       => ~StrLess(s[i].timestamp, s[j].timestamp)

\* C7: the saved store is the whole merged collection (loaded and accepted
\* records) ordered by is_new descending, then timestamp string descending.
C7_SavedOrder ==
    Saved => /\ Ordered(store)
             /\ SameBag(store, loaded \o accepted)

C7_Witness ==
    /\ pc = "done"
    /\ \E i, j \in 1..Len(store) :
          /\ i < j
          /\ store[i].is_new /\ ~store[j].is_new
          /\ StrLess(store[i].timestamp, store[j].timestamp)
    /\ \E i, j \in 1..Len(store) :
          /\ i < j
          /\ store[i].is_new = store[j].is_new
          /\ StrLess(store[j].timestamp, store[i].timestamp)

SameKey(a, b) == a.is_new = b.is_new /\ a.timestamp = b.timestamp

Only(s, a, b) == SelectSeq(s, LAMBDA x : x \in {a, b})

\* C8: two different records with equal (is_new, timestamp) stand after the
\* sort in the order they had before it.
C8_SortStable ==
    pc \in {"save", "render", "done", "crashed"}
        => \A a, b \in Range(presort) :
              a # b /\ SameKey(a, b)
                  => Only(db_articles, a, b) = Only(presort, a, b)

C8_Witness ==
    /\ pc = "done"
    /\ \E i, j \in 1..Len(presort) :
          /\ i < j
          /\ presort[i] # presort[j]
          /\ SameKey(presort[i], presort[j])
          /\ presort[i].is_new

\* C9: from the load on, a record of the collection has is_new = TRUE
\* exactly when this run accepted it; so has every record of the store the
\* run saves, whatever is_new the loaded file carried.
C9_IsNewMeansAcceptedNow ==
    /\ pc # "load" =>
          \A i \in 1..Len(db_articles) :
              db_articles[i].is_new <=> db_articles[i] \in Range(accepted)
    /\ Saved =>
          \A i \in 1..Len(store) :
              store[i].is_new <=> store[i] \in Range(accepted)

C9_Witness ==
    /\ pc = "finalize"
    /\ rendered = store
    /\ accepted # <<>>
    /\ \E i \in 1..Len(store) :
          /\ store[i].is_new
          /\ \E j \in 1..Len(db_articles) :
                /\ db_articles[j].link = store[i].link
                /\ ~db_articles[j].is_new

\* C10: a response that contains SKIP is a reject also when it carries the
\* three fields: from the state that holds it the script goes back to the
\* loop head (or to the finally block, on an interrupt), never to the parser,
\* and appends and counts nothing.
C10_SkipRejects ==
    [][pc = "received" /\ Contains(text, "SKIP")
          => /\ pc' \in {"loop", "finalize"}
             /\ pc' = "loop" => idx' = idx + 1
             /\ db_articles' = db_articles
             /\ accepted' = accepted
             /\ new_articles_count' = new_articles_count]_vars

C10_Witness ==
    /\ pc = "received"
    /\ Contains(text, "SKIP")
    /\ parse_ai_result(text, entry.link, entry.timestamp) # NoRecord

\* C11: an entry whose title holds a stop word in any letter case is left at
\* the loop head without a classifier call: no call is issued, nothing is
\* appended or counted as new, and the entry is counted once as processed
\* when the iterator moves past it.
C11_StopWordNoCall ==
    [][(/\ pc = "loop"
        /\ idx <= Len(feed)
        /\ \E i \in 1..Len(entry.title) :
              LowerToken(entry.title[i]) \in stop_words)
          => /\ pc' \in {"loop", "finalize"}
             /\ called' = called
             /\ db_articles' = db_articles
             /\ accepted' = accepted
             /\ new_articles_count' = new_articles_count
             /\ processed_count' =
                   IF idx' = idx + 1 THEN processed_count + 1
                                     ELSE processed_count]_vars

C11_Witness ==
    /\ pc = "loop"
    /\ idx > 1
    /\ processed_count = idx - 1
    /\ feed[idx - 1].link \notin existing_links
    /\ "SOUD" \in Range(feed[idx - 1].title)
    /\ called = <<>>

\* what a step taken while a failed call is handled may do
FailureHandled ==
    pc \in {"failed", "cooldown"}
       => /\ db_articles' = db_articles
          /\ accepted' = accepted
          /\ new_articles_count' = new_articles_count
          /\ processed_count' = processed_count
          /\ pc' \in {"cooldown", "loop", "finalize"}
          /\ pc' = "finalize" => exc' = "KeyboardInterrupt"
          /\ pc' = "loop" => (idx' = idx + 1 /\ exc' = None)
          /\ pc = "failed" /\ pc' # "finalize"
                => (pc' = "cooldown" <=> Contains(error, "429"))

\* C12: a classifier call that fails is a reject of its entry alone: while
\* the failure is handled the collection and the counters stay as they are,
\* no exception leaves the loop because of it (only an interrupt does), the
\* loop goes on with the next entry and never steps back to an earlier one,
\* and the cool-down is entered exactly when the failure text holds 429.
C12_FailureIsReject ==
    /\ [](pc = "cooldown" => Contains(error, "429"))
    /\ [][FailureHandled]_vars
    /\ [][pc' # "load" => idx' >= idx]_vars

C12_Witness ==
    /\ pc = "cooldown"
    /\ Contains(error, "429")
    /\ accepted # <<>>
    /\ idx < Len(feed)

\* what the load step may do: it always hands control on without an
\* exception, with the file's records or with nothing
LoadReturns ==
    pc = "load"
       => /\ pc' = "fetch"
          /\ exc' = None
          /\ existing_links' = get_existing_links(db_articles')
          /\ \/ db_articles' = <<>>
             \/ dbExists /\ db_articles' = ResetIsNew(store)
          /\ ~dbExists => db_articles' = <<>>

\* C13: the load step never raises; when it returns nothing (file missing,
\* unreadable or malformed) the duplicate set is empty too, and the run goes
\* on to its end through the loop and the whole finally block, saving
\* exactly the records it accepted.
C13_LoadNeverRaises ==
    /\ [][LoadReturns]_vars
    /\ []((pc # "load" /\ loaded = <<>>) => existing_links = {})
    /\ (pc = "fetch" /\ loaded = <<>>)
          ~> (Finished /\ phases = FinalizePhases /\ SameBag(store, accepted))

C13_Witness ==
    /\ pc = "finalize"
    /\ exc = None
    /\ dbExists
    /\ loaded = <<>>
    /\ accepted # <<>>
    /\ \E i \in 1..Len(store) : store[i].link = accepted[1].link

\* C14: in the scenario the run ends with a saved store of exactly two
\* records, the new record of L4 first and the loaded record of L1 (not new)
\* second, and the classifier was called exactly twice, for L3 and for L4.
C14_Scenario ==
    Saved => /\ Len(store) = 2
             /\ store[1].link = "L4" /\ store[1].is_new
             /\ store[2].link = "L1" /\ ~store[2].is_new
             /\ called = <<"L3", "L4">>

C14_Witness ==
    /\ pc = "done"
    /\ processed_count = 4
    /\ new_articles_count = 1
    /\ Len(store) = 2
    /\ StrLess(store[1].timestamp, store[2].timestamp)

\* what the save step of a run that accepted nothing writes
ReloadSaves ==
    (pc = "save" /\ accepted = <<>>)
       => /\ SameBag(store', loaded)
          /\ (dbExists /\ loaded = ResetIsNew(store))
                => /\ SameBag(store', ResetIsNew(store))
                   /\ (\A i \in 1..Len(store) : ~store[i].is_new)
                         => store' = store

\* C15: a run that accepts nothing saves the very records it loaded; when
\* it read the file, these are the records of the file, changed in is_new
\* only (set to false); and over a file that holds no new record, as such a
\* run leaves it, a second such run writes the file back exactly as it was.
C15_ReloadIdempotent == [][ReloadSaves]_vars

C15_Witness ==
    /\ pc = "render"
    /\ accepted = <<>>
    /\ Len(store) = 2
    /\ loaded = store
    /\ rendered = store
    /\ store[1].timestamp = store[2].timestamp
    /\ store[1].link # store[2].link

\* C16: control arrives at a classifier call through the inter-call delay
\* exactly when a classifier call was already issued in this run; the first
\* call of a run is reached without the delay, whatever was skipped before.
C16_DelayIffNotFirstCall ==
    [][(pc' = "call" /\ pc # "call")
          => (pc = "delay" <=> called # <<>>)]_vars

\* an entry whose link was not loaded goes on to the classifier when its
\* title passes the filter, also when this run has already accepted the link,
\* and a parsed answer is appended under the entry's link
SnapshotOnly ==
    /\ (/\ pc = "loop" /\ pc' # "finalize"
        /\ entry.link \notin get_existing_links(loaded)
        /\ is_worth_checking(entry.title))
          => pc' \in {"delay", "call"}
    /\ (/\ pc = "parse" /\ pc' # "finalize"
        /\ parse_ai_result(result, entry.link, entry.timestamp) # NoRecord)
          => /\ Len(db_articles') = Len(db_articles) + 1
             /\ db_articles'[Len(db_articles')].link = entry.link

\* C17: the set of known links is the snapshot of the loaded records for the
\* whole run and accepted links never join it, so a link that was not loaded
\* and comes twice in the feed is sent to the classifier both times and,
\* accepted both times, is appended twice.
C17_SnapshotNeverUpdated ==
    /\ [](pc # "load" => existing_links = get_existing_links(loaded))
    /\ [][SnapshotOnly]_vars

C17_Witness ==
    /\ pc = "done"
    /\ Len(accepted) = 2
    /\ accepted[1].link = accepted[2].link
    /\ accepted[1].link \notin get_existing_links(loaded)
    /\ new_articles_count = 2

Markers == {"KATEGORIE:", "TITULEK:", "SHRNUTI:"}

\* what the step from the parser does with a text that lacks a marker
MissingMarkerSkipped ==
    (pc = "parse" /\ \E m \in Markers : ~Contains(result, m))
       => /\ db_articles' = db_articles
          /\ accepted' = accepted
          /\ new_articles_count' = new_articles_count
          /\ processed_count' = processed_count
          /\ pc' \in {"loop", "finalize"}
          /\ pc' = "loop" => (idx' = idx + 1 /\ exc' = None)
          /\ pc' = "finalize" => exc' = "KeyboardInterrupt"

\* C18: a response without SKIP that lacks one of the three markers makes no
\* record: the collection and the accepted counter stay as they are, the
\* entry stays counted as processed, no error leaves the loop and the loop
\* goes on with the next entry.
C18_MissingMarkerRejects == [][MissingMarkerSkipped]_vars

C18_Witness ==
    /\ pc = "parse"
    /\ result = RespNoCategory
    /\ processed_count = idx
    /\ accepted # <<>>
    /\ idx < Len(feed)

\* a text that holds the three markers is made a record and appended
AllMarkersAccepted ==
    (/\ pc = "parse" /\ pc' # "finalize"
     /\ \A m \in Markers : Contains(result, m))
       => /\ pc' = "count"
          /\ Len(accepted') = Len(accepted) + 1
          /\ db_articles' = Append(db_articles, accepted'[Len(accepted')])

\* C19: every record a run creates has a category of the whitelist, and a
\* response that holds the three markers is made a record whatever its
\* category says.
C19_CategoryDefaulted ==
    /\ [](\A i \in 1..Len(accepted) : accepted[i].category \in valid_cats)
    /\ [][AllMarkersAccepted]_vars

C19_Witness ==
    /\ pc = "parse"
    /\ result = RespBadCat
    /\ Split(Split(result, "KATEGORIE:")[2], "TITULEK:")[1] \notin valid_cats
    /\ parse_ai_result(result, entry.link, entry.timestamp).category
          = <<"Spolecnost">>

NewRecords(s) == Cardinality({i \in 1..Len(s) : s[i].is_new})

Min(a, b) == IF a <= b THEN a ELSE b

\* the bounds on the counters and on the calls
CountersBounded ==
    /\ Len(called) <= processed_count
    /\ 0 <= new_articles_count
    /\ new_articles_count <= Min(MaxNewArticles, processed_count)
    /\ Min(MaxNewArticles, processed_count) <= MaxProcessed

\* a step inside the loop other than the append and the count changes
\* nothing of the collection and of the accepted counter
RejectsOnlyCount ==
    (/\ pc \in LoopPcs /\ pc' \in LoopPcs
     /\ pc # "count" /\ pc' # "count")
       => /\ db_articles' = db_articles
          /\ new_articles_count' = new_articles_count
          /\ processed_count' \in {processed_count, processed_count + 1}

\* C20: in every state of a run the collection holds as many records as
\* were loaded plus the accepted counter, the records marked new are as many
\* as the accepted counter, the calls issued are at most the processed
\* counter, 0 <= accepted <= min(10, processed) <= 60, and duplicates and
\* rejects change the processed counter only.
C20_CountersConsistent ==
    /\ [](/\ Len(db_articles) = Len(loaded) + new_articles_count
          /\ NewRecords(db_articles) = new_articles_count
          /\ CountersBounded)
    /\ [][RejectsOnlyCount]_vars

\* records appended and not counted: one between the append and the
\* increment, and from then on if an interrupt fell between the two
Uncounted == Len(db_articles) - Len(loaded) - new_articles_count

\* C20, amended: as C20, with the collection one record ahead of the
\* accepted counter between the append and the increment of the counter,
\* and for the rest of the run when an interrupt fell between the two.
C20_CountersConsistentUpToAppend ==
    /\ [](/\ Uncounted \in {0, 1}
          /\ pc = "count" => Uncounted = 1
          /\ Uncounted = 1 => (pc = "count" \/ exc = "KeyboardInterrupt")
          /\ NewRecords(db_articles) = new_articles_count + Uncounted
          /\ CountersBounded)
    /\ [][RejectsOnlyCount]_vars

C20_Witness ==
    /\ pc = "done"
    /\ exc = "KeyboardInterrupt"
    /\ Uncounted = 1
    /\ loaded # <<>>
    /\ new_articles_count = 1
    /\ Len(called) < processed_count

====
